---- MODULE Spec2Model ----
(***************************************************************************)
(* Vocalysis: the audio feature-scoring pipeline (vocalysis_analyzer.py)   *)
(* and the /analyze request handler that drives it (main.py).              *)
(*                                                                         *)
(* Python values are records tagged by their type in field t:              *)
(*   float  [t |-> "float", n, d]   the exact rational n/d, d > 0, reduced *)
(*   str    [t |-> "str", s]                                               *)
(*   None   [t |-> "None"]                                                 *)
(*   a raised exception  [t |-> "raise", exc, msg]                         *)
(* Floating-point numbers are modelled by exact rationals; NaN and the     *)
(* infinities are not part of the modelled number domain.                  *)
(***************************************************************************)
EXTENDS Integers, Sequences, FiniteSets, TLC

VARIABLES
    run,    \* the frame of one run_full_analysis invocation
    fn,     \* the last direct call of a helper function and its result
    files,  \* the upload folder: path -> stored bytes, or NoFile
    req     \* the /analyze requests being handled: request -> handler frame

vars == <<run, fn, files, req>>

(***************************************************************************)
(* Bounds of the model.                                                    *)
(***************************************************************************)
\* longest waveform (in samples) the model enumerates
MaxLen == 2
\* largest integer raw measurement handed to normalize_score directly
MaxVal == 7

(***************************************************************************)
(* Python values.                                                          *)
(***************************************************************************)
Abs(i) == IF i < 0 THEN -i ELSE i

RECURSIVE GCD(_, _)
GCD(a, b) == IF b = 0 THEN a ELSE GCD(b, a % b)

\* the float n/d (d # 0), in reduced form with a positive denominator
Float(n, d) ==
    LET s == IF d < 0 THEN -1 ELSE 1
        g == GCD(Abs(n), Abs(d))
    IN  [t |-> "float", n |-> (s * n) \div g, d |-> (s * d) \div g]

Str(s) == [t |-> "str", s |-> s]
None == [t |-> "None"]
Raise(exc, msg) == [t |-> "raise", exc |-> exc, msg |-> msg]

IsFloat(v) == v.t = "float"
IsStr(v) == v.t = "str"
IsNone(v) == v.t = "None"
IsRaise(v) == v.t = "raise"

FAdd(a, b) == Float(a.n * b.d + b.n * a.d, a.d * b.d)
FSub(a, b) == Float(a.n * b.d - b.n * a.d, a.d * b.d)
FMul(a, b) == Float(a.n * b.n, a.d * b.d)
\* a / b: Python raises ZeroDivisionError when b is zero
FDiv(a, b) ==
    IF b.n = 0 THEN Raise("ZeroDivisionError", "float division by zero")
    ELSE Float(a.n * b.d, a.d * b.n)
FLt(a, b) == a.n * b.d < b.n * a.d
FLe(a, b) == a.n * b.d <= b.n * a.d
FAbs(a) == Float(Abs(a.n), a.d)

\* Python's built-in min(a, b) and max(a, b): the first argument unless the
\* second is strictly smaller (larger)
PyMin(a, b) == IF FLt(b, a) THEN b ELSE a
PyMax(a, b) == IF FLt(a, b) THEN b ELSE a

\* Python's a + b and a / b on tagged values, as far as the program uses them
PyAdd(a, b) ==
    IF IsRaise(a) THEN a
    ELSE IF IsRaise(b) THEN b
    ELSE IF IsFloat(a) /\ IsFloat(b) THEN FAdd(a, b)
    ELSE IF IsStr(a) /\ IsStr(b) THEN Str(a.s \o b.s)
    ELSE Raise("TypeError", "unsupported operand type(s) for +")

PyDiv(a, b) ==
    IF IsRaise(a) THEN a
    ELSE IF IsRaise(b) THEN b
    ELSE IF IsFloat(a) /\ IsFloat(b) THEN FDiv(a, b)
    ELSE Raise("TypeError", "unsupported operand type(s) for /")

(***************************************************************************)
(* Helper functions of the analyzer.                                       *)
(***************************************************************************)
\* normalize_score without the clamp of the value to [min_val, max_val]
normalize_score_noclamp(value, min_val, max_val, reverse) ==
    LET normalized == FDiv(FSub(value, min_val), FSub(max_val, min_val))
    IN  IF IsRaise(normalized) THEN normalized
        ELSE IF reverse THEN FMul(FSub(Float(1, 1), normalized), Float(10, 1))
        ELSE FMul(normalized, Float(10, 1))

normalize_score(value, min_val, max_val, reverse) ==
    LET clamped == PyMax(PyMin(value, max_val), min_val)
        normalized == FDiv(FSub(clamped, min_val), FSub(max_val, min_val))
    IN  IF IsRaise(normalized) THEN normalized
        ELSE IF reverse THEN FMul(FSub(Float(1, 1), normalized), Float(10, 1))
        ELSE FMul(normalized, Float(10, 1))

placeholder_mood_analysis == [Status |-> Str("Not Implemented")]

\* placeholder_professionalism_score without the division by 2
placeholder_professionalism_score_sum(clarity, confidence) ==
    IF IsNone(clarity) \/ IsNone(confidence) THEN Str("Not Calculated")
    ELSE PyAdd(clarity, confidence)

placeholder_professionalism_score(clarity, confidence) ==
    IF IsNone(clarity) \/ IsNone(confidence) THEN Str("Not Calculated")
    ELSE PyDiv(PyAdd(clarity, confidence), Float(2, 1))

(***************************************************************************)
(* String and array primitives the extractors use.                         *)
(***************************************************************************)
CharAt(s, i) == SubSeq(s, i, i)
UpperCase == "ABCDEFGHIJKLMNOPQRSTUVWXYZ"
LowerCase == "abcdefghijklmnopqrstuvwxyz"
IsSpace(c) == c \in {" ", "\t", "\n"}

LowerChar(c) ==
    IF \E i \in 1..26 : CharAt(UpperCase, i) = c
    THEN CharAt(LowerCase, CHOOSE i \in 1..26 : CharAt(UpperCase, i) = c)
    ELSE c

\* str.lower()
RECURSIVE StrLower(_)
StrLower(s) ==
    IF Len(s) = 0 THEN ""
    ELSE LowerChar(CharAt(s, 1)) \o StrLower(SubSeq(s, 2, Len(s)))

\* str.split(): the maximal runs of non-whitespace characters, in order;
\* word is the run being read
RECURSIVE SplitFrom(_, _, _)
SplitFrom(s, i, word) ==
    IF i > Len(s) THEN (IF word = "" THEN <<>> ELSE <<word>>)
    ELSE IF IsSpace(CharAt(s, i))
         THEN (IF word = "" THEN <<>> ELSE <<word>>) \o SplitFrom(s, i + 1, "")
         ELSE SplitFrom(s, i + 1, word \o CharAt(s, i))

StrSplit(s) == SplitFrom(s, 1, "")

\* np.diff followed by np.abs, on a sequence of floats
AbsDiff(xs) == [i \in 1..(Len(xs) - 1) |-> FAbs(FSub(xs[i + 1], xs[i]))]

RECURSIVE FSum(_)
FSum(xs) == IF Len(xs) = 0 THEN Float(0, 1) ELSE FAdd(xs[1], FSum(Tail(xs)))

\* np.mean of a non-empty sequence of floats
NpMean(xs) == FDiv(FSum(xs), Float(Len(xs), 1))

\* the exact square root of a float whose reduced numerator and denominator
\* are perfect squares (every envelope the model enumerates has one)
ISqrt(k) == CHOOSE r \in 0..k : r * r = k
FSqrt(a) == Float(ISqrt(a.n), ISqrt(a.d))

\* np.std: the population standard deviation
NpStd(xs) ==
    LET m == NpMean(xs)
        sq == [i \in 1..Len(xs) |-> FMul(FSub(xs[i], m), FSub(xs[i], m))]
    IN  FSqrt(NpMean(sq))

\* np.ptp: the peak-to-peak range of a non-empty sequence of floats
NpPtp(xs) ==
    LET hi == CHOOSE i \in 1..Len(xs) : \A j \in 1..Len(xs) : FLe(xs[j], xs[i])
        lo == CHOOSE i \in 1..Len(xs) : \A j \in 1..Len(xs) : FLe(xs[i], xs[j])
    IN  FSub(xs[hi], xs[lo])

(***************************************************************************)
(* The spectral capabilities (librosa).  What they return on a waveform is *)
(* carried by a record:                                                    *)
(*   frames    one entry per analysis frame: the pitch (Hz) of the bin     *)
(*             with the largest magnitude (0 when unvoiced) and the RMS    *)
(*             energy of the frame                                         *)
(*   onsets    the number of onset events detected                         *)
(*   duration  the duration in seconds                                     *)
(*   faults    the extractors in which a capability raises on this input   *)
(***************************************************************************)
Extractors == {"analyze_clarity", "analyze_confidence", "analyze_energy_engagement"}

Pitches(librosa) == [i \in 1..Len(librosa.frames) |-> Float(librosa.frames[i].pitch, 1)]
Voiced(p) == FLt(Float(0, 1), p)
Rms(librosa) == [i \in 1..Len(librosa.frames) |-> librosa.frames[i].rms]

FILLERS == {"um", "uh", "like", "you know", "so", "actually", "basically"}

FillerCount(words) == Cardinality({i \in 1..Len(words) : words[i] \in FILLERS})

(***************************************************************************)
(* The three extractors.  Each X_body is the body of the try block of X:   *)
(* it evaluates to the value returned or to the exception raised in it.    *)
(***************************************************************************)
analyze_clarity_body(y, sr, librosa) ==
    IF "analyze_clarity" \in librosa.faults
    THEN Raise("ParameterError", "piptrack")
    ELSE LET pitch_values == SelectSeq(Pitches(librosa), Voiced)
         IN  IF Len(pitch_values) < 2 THEN Float(0, 1)
             ELSE LET jitter == NpMean(AbsDiff(pitch_values))
                      shimmer == NpMean(AbsDiff(Rms(librosa)))
                  IN  FDiv(FAdd(normalize_score(jitter, Float(0, 1), Float(5, 1), TRUE),
                                normalize_score(shimmer, Float(0, 1), Float(1, 10), TRUE)),
                           Float(2, 1))

analyze_clarity(y, sr, librosa) ==
    LET r == analyze_clarity_body(y, sr, librosa)
    IN  IF IsRaise(r) THEN Float(0, 1) ELSE r

analyze_confidence_body(y, sr, transcribed_text, librosa) ==
    IF "analyze_confidence" \in librosa.faults
    THEN Raise("ParameterError", "rms")
    ELSE IF ~IsStr(transcribed_text)
    THEN Raise("AttributeError", "lower")
    ELSE LET volume_stability_score ==
                 normalize_score(NpStd(Rms(librosa)), Float(0, 1), Float(1, 10), TRUE)
             words == StrSplit(StrLower(transcribed_text.s))
         IN  IF Len(words) = 0 THEN volume_stability_score
             ELSE LET filler_count == FillerCount(words)
                      filler_ratio == FDiv(Float(filler_count, 1),
                                           FDiv(Float(Len(words), 1), Float(100, 1)))
                      filler_word_score ==
                          normalize_score(filler_ratio, Float(0, 1), Float(10, 1), TRUE)
                  IN  FDiv(FAdd(volume_stability_score, filler_word_score), Float(2, 1))

\* analyze_confidence without its try statement
analyze_confidence_notry(y, sr, transcribed_text, librosa) ==
    analyze_confidence_body(y, sr, transcribed_text, librosa)

analyze_confidence(y, sr, transcribed_text, librosa) ==
    LET r == analyze_confidence_body(y, sr, transcribed_text, librosa)
    IN  IF IsRaise(r) THEN Float(0, 1) ELSE r

analyze_energy_engagement_body(y, sr, librosa) ==
    IF "analyze_energy_engagement" \in librosa.faults
    THEN Raise("ParameterError", "onset_detect")
    ELSE LET pitch_values == SelectSeq(Pitches(librosa), Voiced)
             duration == librosa.duration
         IN  IF duration = Float(0, 1) THEN Float(0, 1)
             ELSE LET range == IF Len(pitch_values) > 1 THEN NpPtp(pitch_values)
                               ELSE Float(0, 1)
                      pitch_range_score ==
                          normalize_score(range, Float(50, 1), Float(250, 1), FALSE)
                      speech_rate_score ==
                          normalize_score(FDiv(Float(librosa.onsets, 1), duration),
                                          Float(2, 1), Float(6, 1), FALSE)
                  IN  FDiv(FAdd(pitch_range_score, speech_rate_score), Float(2, 1))

analyze_energy_engagement(y, sr, librosa) ==
    LET r == analyze_energy_engagement_body(y, sr, librosa)
    IN  IF IsRaise(r) THEN Float(0, 1) ELSE r

(***************************************************************************)
(* run_full_analysis.  Its frame:                                          *)
(*   pc      Idle, then the stage about to run (Loading, Standardizing,    *)
(*           SilenceCheck, Transcribing, Extracting, Composing), then Done *)
(*           (a mapping was returned) or Raised (an exception left it)     *)
(*   file    what audio_path holds: NoFile, or the stored bytes            *)
(*   ret     the mapping returned; exc  the exception that propagated      *)
(*   calls   the stages and capabilities invoked so far, in order          *)
(*   librosa what the spectral capabilities returned to the extractors     *)
(***************************************************************************)
Unset == [t |-> "unset"]
NoFile == [t |-> "nofile"]

\* librosa.load(wav_buffer, sr=16000)
SR == 16000

\* 16-bit PCM samples k/32768: 32/32768 is the largest amplitude below 0.001
Samples == {Float(0, 1), Float(32, 32768), Float(-33, 32768)}
Waveforms == UNION {[1..n -> Samples] : n \in 0..MaxLen}

\* the bytes of a stored file: whether AudioSegment.from_file decodes them,
\* whether the conversion to a mono 16 kHz float waveform succeeds, and the
\* waveform that results
StoredFiles ==
    {[t |-> "file", decodes |-> FALSE, standardizes |-> FALSE, samples |-> <<>>]}
    \cup [t : {"file"}, decodes : {TRUE}, standardizes : {FALSE}, samples : {<<>>}]
    \cup [t : {"file"}, decodes : {TRUE}, standardizes : {TRUE}, samples : Waveforms]

LongText == " so a b c d e f g h i j k l m n o p q r s"

\* whisper_model.transcribe(y): raises, or returns a mapping with a text
WhisperOutcomes ==
    {Raise("RuntimeError", "transcribe")}
    \cup {[t |-> "dict", text |-> Str(x)] :
            x \in {"", " Um so hello", " Hello you know", LongText}}

Frame(pitch, rms) == [pitch |-> pitch, rms |-> rms]
Tracks ==
    { <<Frame(150, Float(5, 100))>>,
      <<Frame(0, Float(5, 100)), Frame(0, Float(5, 100))>>,
      <<Frame(100, Float(5, 100)), Frame(102, Float(7, 100))>>,
      <<Frame(100, Float(2, 100)), Frame(300, Float(30, 100))>>,
      <<Frame(100, Float(5, 100)), Frame(250, Float(5, 100))>> }

\* what the spectral capabilities return on a non-empty waveform
LibrosaOutcomes ==
    [frames : Tracks, onsets : {0, 7}, duration : {Float(1, 1), Float(2, 1)},
     faults : SUBSET Extractors]

InitFrame(file) ==
    [pc |-> "Loading", file |-> file, y |-> Unset, sr |-> 0,
     transcribed_text |-> Unset, clarity_score |-> Unset,
     confidence_score |-> Unset, engagement_score |-> Unset,
     ret |-> Unset, exc |-> Unset, calls |-> <<>>, librosa |-> Unset]

IdleFrame == [InitFrame(NoFile) EXCEPT !.pc = "Idle"]

Return(f, mapping) == [f EXCEPT !.pc = "Done", !.ret = mapping]
Propagate(f, e) == [f EXCEPT !.pc = "Raised", !.exc = e]
Called(f, name) == [f EXCEPT !.calls = Append(@, name)]

LoadError(msg) == ("error" :> Str("Could not load audio file: " \o msg))

SilenceResult ==
    ("Clarity Score" :> Float(0, 1))
    @@ ("Confidence Score" :> Float(0, 1))
    @@ ("Energy & Engagement Score" :> Float(0, 1))
    @@ ("Professionalism Score" :> Float(0, 1))
    @@ ("Mood Analysis" :> Str("Not Implemented"))
    @@ ("Transcription" :> Str("Audio is silent or contains no speech."))

\* float(x)
PyFloat(x) ==
    IF IsFloat(x) \/ IsRaise(x) THEN x
    ELSE Raise("TypeError", "float() argument must be a string or a number")

\* np.max(np.abs(y)): numpy raises on an empty array
NpMaxAbs(y) ==
    IF Len(y) = 0
    THEN Raise("ValueError", "zero-size array to reduction operation maximum")
    ELSE FAbs(y[CHOOSE i \in 1..Len(y) : \A j \in 1..Len(y) : FLe(FAbs(y[j]), FAbs(y[i]))])

\* Loading: AudioSegment.from_file(audio_path), inside the try
DoLoading(f) ==
    LET g == Called(f, "from_file")
    IN  IF f.file = NoFile
        THEN Return(g, LoadError("[Errno 2] No such file or directory"))
        ELSE IF ~f.file.decodes
        THEN Return(g, LoadError("Decoding failed"))
        ELSE [g EXCEPT !.pc = "Standardizing"]

\* DoStandardizing with the conversion moved out of the try statement
DoStandardizing_notry(f) ==
    LET g == Called(f, "standardize")
    IN  IF ~f.file.standardizes
        THEN Propagate(g, Raise("CouldntEncodeError", "Encoding failed"))
        ELSE [g EXCEPT !.pc = "SilenceCheck", !.y = f.file.samples, !.sr = SR]

\* Standardizing: mono, 16 kHz, export to WAV, librosa.load; inside the try
DoStandardizing(f) ==
    LET g == Called(f, "standardize")
    IN  IF ~f.file.standardizes
        THEN Return(g, LoadError("Encoding failed"))
        ELSE [g EXCEPT !.pc = "SilenceCheck", !.y = f.file.samples, !.sr = SR]

\* DoSilenceCheck without the early return on a silent waveform
DoSilenceCheck_nostop(f) ==
    LET g == Called(f, "silence_check")
        peak == NpMaxAbs(f.y)
    IN  IF IsRaise(peak) THEN Propagate(g, peak)
        ELSE [g EXCEPT !.pc = "Transcribing"]

\* SilenceCheck: outside the try
DoSilenceCheck(f) ==
    LET g == Called(f, "silence_check")
        peak == NpMaxAbs(f.y)
    IN  IF IsRaise(peak) THEN Propagate(g, peak)
        ELSE IF FLt(peak, Float(1, 1000)) THEN Return(g, SilenceResult)
        ELSE [g EXCEPT !.pc = "Transcribing"]

\* DoTranscribing with the transcription moved into the try statement
DoTranscribing_caught(f, whisper) ==
    LET g == Called(f, "transcribe")
    IN  IF IsRaise(whisper) THEN Return(g, LoadError(whisper.msg))
        ELSE [g EXCEPT !.pc = "Extracting", !.transcribed_text = whisper.text]

\* Transcribing: whisper is what whisper_model.transcribe(y) does on y
DoTranscribing(f, whisper) ==
    LET g == Called(f, "transcribe")
    IN  IF IsRaise(whisper) THEN Propagate(g, whisper)
        ELSE [g EXCEPT !.pc = "Extracting", !.transcribed_text = whisper.text]

\* Extracting: the three extractors in turn; an exception leaving one of
\* them would leave run_full_analysis before the next is called
DoExtracting(f, librosa) ==
    LET g1 == Called([f EXCEPT !.librosa = librosa], "analyze_clarity")
        clarity == analyze_clarity(f.y, f.sr, librosa)
        g2 == Called(g1, "analyze_confidence")
        confidence == analyze_confidence(f.y, f.sr, f.transcribed_text, librosa)
        g3 == Called(g2, "analyze_energy_engagement")
        engagement == analyze_energy_engagement(f.y, f.sr, librosa)
    IN  IF IsRaise(clarity) THEN Propagate(g1, clarity)
        ELSE IF IsRaise(confidence)
        THEN Propagate([g2 EXCEPT !.clarity_score = clarity], confidence)
        ELSE IF IsRaise(engagement)
        THEN Propagate([g3 EXCEPT !.clarity_score = clarity,
                                  !.confidence_score = confidence], engagement)
        ELSE [g3 EXCEPT !.pc = "Composing", !.clarity_score = clarity,
                        !.confidence_score = confidence,
                        !.engagement_score = engagement]

\* Composing: the professionalism score, the mood placeholder, the report
DoComposing(f) ==
    LET g == Called(f, "compose")
        professionalism_score ==
            placeholder_professionalism_score(f.clarity_score, f.confidence_score)
        mood_report == placeholder_mood_analysis
        clarity == PyFloat(f.clarity_score)
        confidence == PyFloat(f.confidence_score)
        engagement == PyFloat(f.engagement_score)
    IN  IF IsRaise(professionalism_score) THEN Propagate(g, professionalism_score)
        ELSE IF IsRaise(clarity) THEN Propagate(g, clarity)
        ELSE IF IsRaise(confidence) THEN Propagate(g, confidence)
        ELSE IF IsRaise(engagement) THEN Propagate(g, engagement)
        ELSE Return(g,
                ("Clarity Score" :> clarity)
                @@ ("Confidence Score" :> confidence)
                @@ ("Energy & Engagement Score" :> engagement)
                @@ ("Professionalism Score" :>
                        IF IsFloat(professionalism_score) THEN professionalism_score
                        ELSE Str("Not Calculated"))
                @@ ("Mood Analysis" :> mood_report.Status)
                @@ ("Transcription" :> f.transcribed_text))

(***************************************************************************)
(* One invocation of run_full_analysis, stage by stage.                    *)
(***************************************************************************)
Call ==
    /\ run.pc = "Idle"
    /\ \E file \in {NoFile} \cup StoredFiles : run' = InitFrame(file)
    /\ UNCHANGED <<fn, files, req>>

Loading ==
    /\ run.pc = "Loading"
    /\ run' = DoLoading(run)
    /\ UNCHANGED <<fn, files, req>>

Standardizing ==
    /\ run.pc = "Standardizing"
    /\ run' = DoStandardizing(run)
    /\ UNCHANGED <<fn, files, req>>

SilenceCheck ==
    /\ run.pc = "SilenceCheck"
    /\ run' = DoSilenceCheck(run)
    /\ UNCHANGED <<fn, files, req>>

Transcribing ==
    /\ run.pc = "Transcribing"
    /\ \E whisper \in WhisperOutcomes : run' = DoTranscribing(run, whisper)
    /\ UNCHANGED <<fn, files, req>>

Extracting ==
    /\ run.pc = "Extracting"
    /\ \E librosa \in LibrosaOutcomes : run' = DoExtracting(run, librosa)
    /\ UNCHANGED <<fn, files, req>>

Composing ==
    /\ run.pc = "Composing"
    /\ run' = DoComposing(run)
    /\ UNCHANGED <<fn, files, req>>

\* the whole call: the stages in turn, with what whisper and librosa do on
\* the stored bytes carried by the bytes themselves
RunStep(f) ==
    CASE f.pc = "Loading" -> DoLoading(f)
      [] f.pc = "Standardizing" -> DoStandardizing(f)
      [] f.pc = "SilenceCheck" -> DoSilenceCheck(f)
      [] f.pc = "Transcribing" -> DoTranscribing(f, f.file.whisper)
      [] f.pc = "Extracting" -> DoExtracting(f, f.file.librosa)
      [] f.pc = "Composing" -> DoComposing(f)

RECURSIVE RunToEnd(_)
RunToEnd(f) == IF f.pc \in {"Done", "Raised"} THEN f ELSE RunToEnd(RunStep(f))

run_full_analysis(file) == RunToEnd(InitFrame(file))

(***************************************************************************)
(* Direct calls of the helper functions.                                   *)
(***************************************************************************)
NoCall == [op |-> "none"]

Values ==
    {Float(i, 1) : i \in -1..MaxVal}
    \cup {Float(1, 20), Float(1, 10), Float(3, 20), Float(7, 2),
          Float(50, 1), Float(150, 1), Float(250, 1), Float(300, 1)}

\* <<min_val, max_val>>: the ranges the extractors use, and others
Ranges ==
    { <<Float(0, 1), Float(5, 1)>>, <<Float(0, 1), Float(1, 10)>>,
      <<Float(0, 1), Float(10, 1)>>, <<Float(50, 1), Float(250, 1)>>,
      <<Float(2, 1), Float(6, 1)>>, <<Float(-1, 1), Float(2, 1)>>,
      <<Float(1, 1), Float(1, 1)>>, <<Float(3, 1), Float(1, 1)>> }

ScoreInputs ==
    {None, Str("n/a"), Str("7.5"), Float(0, 1), Float(5, 2), Float(7, 1), Float(10, 1)}

NormalizeCall ==
    /\ fn = NoCall
    /\ \E value \in Values, range \in Ranges, reverse \in BOOLEAN :
          fn' = [op |-> "normalize_score", value |-> value, min_val |-> range[1],
                 max_val |-> range[2], reverse |-> reverse,
                 result |-> normalize_score(value, range[1], range[2], reverse),
                 prev |-> NoCall]
    /\ UNCHANGED <<run, files, req>>

\* a second call over the same range; prev keeps the first
NormalizeAgain ==
    /\ fn.op = "normalize_score"
    /\ fn.prev = NoCall
    /\ \E value \in Values :
          fn' = [fn EXCEPT
                   !.value = value,
                   !.result = normalize_score(value, fn.min_val, fn.max_val, fn.reverse),
                   !.prev = [op |-> "normalize_score", value |-> fn.value,
                             result |-> fn.result]]
    /\ UNCHANGED <<run, files, req>>

ProfessionalismCall ==
    /\ fn = NoCall
    /\ \E clarity \in ScoreInputs, confidence \in ScoreInputs :
          fn' = [op |-> "placeholder_professionalism_score", clarity |-> clarity,
                 confidence |-> confidence,
                 result |-> placeholder_professionalism_score(clarity, confidence)]
    /\ UNCHANGED <<run, files, req>>

(***************************************************************************)
(* The /analyze handler (main.py).  The upload folder is shared by all     *)
(* requests; each request is handled by a thread of its own.               *)
(***************************************************************************)
Requests == {"r1", "r2"}

UPLOAD_FOLDER == "uploads"
Digits == "0123456789"

IsFilenameChar(c) ==
    \/ \E i \in 1..26 : c \in {CharAt(UpperCase, i), CharAt(LowerCase, i)}
    \/ \E i \in 1..10 : c = CharAt(Digits, i)
    \/ c \in {"_", ".", "-"}

\* str.replace("/", " ")
RECURSIVE ReplaceSep(_)
ReplaceSep(s) ==
    IF Len(s) = 0 THEN ""
    ELSE (IF CharAt(s, 1) = "/" THEN " " ELSE CharAt(s, 1))
         \o ReplaceSep(SubSeq(s, 2, Len(s)))

\* "_".join(words)
RECURSIVE JoinUnderscore(_)
JoinUnderscore(words) ==
    IF Len(words) = 0 THEN ""
    ELSE IF Len(words) = 1 THEN words[1]
    ELSE words[1] \o "_" \o JoinUnderscore(Tail(words))

\* the characters outside [A-Za-z0-9_.-] removed
RECURSIVE KeepFilenameChars(_)
KeepFilenameChars(s) ==
    IF Len(s) = 0 THEN ""
    ELSE (IF IsFilenameChar(CharAt(s, 1)) THEN CharAt(s, 1) ELSE "")
         \o KeepFilenameChars(SubSeq(s, 2, Len(s)))

\* str.strip("._")
RECURSIVE StripDots(_)
StripDots(s) ==
    IF Len(s) = 0 THEN ""
    ELSE IF CharAt(s, 1) \in {".", "_"} THEN StripDots(SubSeq(s, 2, Len(s)))
    ELSE IF CharAt(s, Len(s)) \in {".", "_"} THEN StripDots(SubSeq(s, 1, Len(s) - 1))
    ELSE s

\* werkzeug.utils.secure_filename
secure_filename(filename) ==
    StripDots(KeepFilenameChars(JoinUnderscore(StrSplit(ReplaceSep(filename)))))

os_path_join(folder, filename) == folder \o "/" \o filename

\* file.filename of the uploaded part
RawNames == {"", "a.wav", "../a.wav", "b.wav", ".."}

SpokenLibrosa ==
    [frames |-> <<Frame(100, Float(5, 100)), Frame(102, Float(7, 100))>>,
     onsets |-> 7, duration |-> Float(2, 1), faults |-> {}]

\* the bytes of an upload, with what whisper and librosa do on their waveform
Upload(decodes, samples, whisper) ==
    [t |-> "file", decodes |-> decodes, standardizes |-> decodes,
     samples |-> samples, whisper |-> whisper, librosa |-> SpokenLibrosa]

GarbageUpload == Upload(FALSE, <<>>, Raise("RuntimeError", "transcribe"))
SilentUpload == Upload(TRUE, <<Float(0, 1), Float(32, 32768)>>, Raise("RuntimeError", "transcribe"))
SpeechUpload == Upload(TRUE, <<Float(-33, 32768)>>, [t |-> "dict", text |-> Str(" Um so hello")])
NoisyUpload == Upload(TRUE, <<Float(-33, 32768), Float(0, 1)>>, Raise("RuntimeError", "transcribe"))

Uploads == {GarbageUpload, SilentUpload, SpeechUpload, NoisyUpload}

\* request.files: without the audio_file part, or with it
Forms ==
    {[has_part |-> FALSE, filename |-> "", upload |-> GarbageUpload]}
    \cup [has_part : {TRUE}, filename : RawNames, upload : Uploads]

Paths == {os_path_join(UPLOAD_FOLDER, secure_filename(n)) : n \in RawNames \ {""}}

Jsonify(mapping) == [json |-> mapping]
Response(body, status) == [status |-> status, body |-> body]
ErrorBody(msg) == Jsonify(("error" :> Str(msg)))

NoRequest ==
    [pc |-> "Idle", form |-> [has_part |-> FALSE, filename |-> "", upload |-> GarbageUpload],
     filename |-> "", temp_audio_path |-> "", saved |-> FALSE, read |-> Unset,
     analysis_results |-> Unset, exc |-> Unset, cleanup |-> "none",
     response |-> Unset]

Answer(h, response) == [h EXCEPT !.pc = "Responded", !.response = response]

\* the checks of the request, the secured filename and the temporary path
HReceive(form) ==
    LET h == [NoRequest EXCEPT !.form = form]
    IN  IF ~form.has_part
        THEN Answer(h, Response(ErrorBody("No audio file part in the request"), 400))
        ELSE IF form.filename = ""
        THEN Answer(h, Response(ErrorBody("No selected file"), 400))
        ELSE LET filename == secure_filename(form.filename)
             IN  [h EXCEPT !.pc = "Save", !.filename = filename,
                           !.temp_audio_path = os_path_join(UPLOAD_FOLDER, filename)]

\* file.save(temp_audio_path) fails on the folder itself; nothing catches it
HSave(h) ==
    IF h.filename = ""
    THEN Answer(h, Response(Str("Internal Server Error"), 500))
    ELSE [h EXCEPT !.pc = "Analyse", !.saved = TRUE]

\* HAnalyse with the clean-up after the try statement instead of in a
\* finally clause: the return of the except clause skips it
HAnalyse_nofinally(h, stored) ==
    LET f == run_full_analysis(stored)
    IN  IF f.pc = "Raised"
        THEN [h EXCEPT !.pc = "Responded", !.read = stored, !.exc = f.exc,
                       !.response = Response(ErrorBody("Analysis failed unexpectedly: "
                                                       \o f.exc.msg), 500)]
        ELSE [h EXCEPT !.pc = "Exists", !.read = stored, !.analysis_results = f.ret]

\* try: analysis_results = run_full_analysis(temp_audio_path); the except
\* clause prepares its response, and the finally clause runs before any return
HAnalyse(h, stored) ==
    LET f == run_full_analysis(stored)
    IN  IF f.pc = "Raised"
        THEN [h EXCEPT !.pc = "Exists", !.read = stored, !.exc = f.exc]
        ELSE [h EXCEPT !.pc = "Exists", !.read = stored, !.analysis_results = f.ret]

\* finally: time.sleep(0.1); if os.path.exists(temp_audio_path)
HExists(h, exists) ==
    IF exists THEN [h EXCEPT !.pc = "Remove"]
    ELSE [h EXCEPT !.pc = "Respond", !.cleanup = "absent"]

\* os.remove(temp_audio_path); an OSError is printed and absorbed
HRemove(h, removed) ==
    [h EXCEPT !.pc = "Respond", !.cleanup = IF removed THEN "removed" ELSE "failed"]

\* the return of the except clause, or the returns after the try statement
HRespond(h) ==
    IF h.exc # Unset
    THEN Answer(h, Response(ErrorBody("Analysis failed unexpectedly: " \o h.exc.msg), 500))
    ELSE IF "error" \in DOMAIN h.analysis_results
    THEN Answer(h, Response(Jsonify(h.analysis_results), 500))
    ELSE Answer(h, Response(Jsonify(h.analysis_results), 200))

ReceiveRequest(r) ==
    /\ req[r].pc = "Idle"
    /\ \E form \in Forms : req' = [req EXCEPT ![r] = HReceive(form)]
    /\ UNCHANGED <<run, fn, files>>

SaveUpload(r) ==
    /\ req[r].pc = "Save"
    /\ req' = [req EXCEPT ![r] = HSave(req[r])]
    /\ files' = IF req[r].filename = "" THEN files
                ELSE [files EXCEPT ![req[r].temp_audio_path] = req[r].form.upload]
    /\ UNCHANGED <<run, fn>>

Analyse(r) ==
    /\ req[r].pc = "Analyse"
    /\ req' = [req EXCEPT ![r] = HAnalyse(req[r], files[req[r].temp_audio_path])]
    /\ UNCHANGED <<run, fn, files>>

CheckExists(r) ==
    /\ req[r].pc = "Exists"
    /\ req' = [req EXCEPT ![r] = HExists(req[r], files[req[r].temp_audio_path] # NoFile)]
    /\ UNCHANGED <<run, fn, files>>

\* os.remove fails when the file is gone, and may fail while it is locked
RemoveFile(r) ==
    /\ req[r].pc = "Remove"
    /\ \E ok \in BOOLEAN :
          LET removed == ok /\ files[req[r].temp_audio_path] # NoFile
          IN  /\ req' = [req EXCEPT ![r] = HRemove(req[r], removed)]
              /\ files' = IF removed
                          THEN [files EXCEPT ![req[r].temp_audio_path] = NoFile]
                          ELSE files
    /\ UNCHANGED <<run, fn>>

SendResponse(r) ==
    /\ req[r].pc = "Respond"
    /\ req' = [req EXCEPT ![r] = HRespond(req[r])]
    /\ UNCHANGED <<run, fn, files>>


Init ==
    /\ run = IdleFrame
    /\ fn = NoCall
    /\ files = [p \in Paths |-> NoFile]
    /\ req = [r \in Requests |-> NoRequest]

Next ==
    \/ Call
    \/ Loading
    \/ Standardizing
    \/ SilenceCheck
    \/ Transcribing
    \/ Extracting
    \/ Composing

Spec == Init /\ [][Next]_vars

NextFn ==
    \/ NormalizeCall
    \/ NormalizeAgain
    \/ ProfessionalismCall

SpecFn == Init /\ [][NextFn]_vars

NextHttp ==
    \E r \in Requests :
        \/ ReceiveRequest(r)
        \/ SaveUpload(r)
        \/ Analyse(r)
        \/ CheckExists(r)
        \/ RemoveFile(r)
        \/ SendResponse(r)

SpecHttp == Init /\ [][NextHttp]_vars

(***************************************************************************)
(* Properties.                                                             *)
(***************************************************************************)
Zero == Float(0, 1)
Ten == Float(10, 1)
InScale(v) == IsFloat(v) /\ FLe(Zero, v) /\ FLe(v, Ten)
ScoreKeys ==
    {"Clarity Score", "Confidence Score", "Energy & Engagement Score",
     "Professionalism Score"}
ReportKeys == ScoreKeys \cup {"Mood Analysis", "Transcription"}
HasPrefix(s, prefix) == Len(s) >= Len(prefix) /\ SubSeq(s, 1, Len(prefix)) = prefix

\* no sample reaches the amplitude 0.001
Quiet(y) == \A i \in 1..Len(y) : FLt(FAbs(y[i]), Float(1, 1000))
\* the decoding or the standardizing of the file raises
LoadFails(file) == file = NoFile \/ ~file.decodes \/ ~file.standardizes
\* the silence check has run
Checked(f) == Len(f.calls) >= 3

\* C1: once the silence check has run on a waveform whose samples all stay
\* below 0.001, whatever its length, run_full_analysis has returned the fixed
\* silence result and no exception has left it.
C1_SilenceResult ==
    (Checked(run) /\ Quiet(run.y)) =>
        /\ run.pc = "Done"
        /\ run.exc = Unset
        /\ DOMAIN run.ret = ReportKeys
        /\ \A k \in ScoreKeys : run.ret[k] = Zero
        /\ run.ret["Mood Analysis"] = Str("Not Implemented")
        /\ run.ret["Transcription"] = Str("Audio is silent or contains no speech.")

\* C2: when decoding or standardizing the input has raised, run_full_analysis
\* has returned (not raised) a mapping whose only key is "error", with a value
\* that starts "Could not load audio file: ".
C2_LoadFailureIsErrorMapping ==
    (run.pc \notin {"Idle", "Loading", "Standardizing"} /\ LoadFails(run.file)) =>
        /\ run.pc = "Done"
        /\ run.exc = Unset
        /\ DOMAIN run.ret = {"error"}
        /\ IsStr(run.ret["error"])
        /\ HasPrefix(run.ret["error"].s, "Could not load audio file: ")

C2_Witness ==
    /\ run.pc = "Done"
    /\ run.file # NoFile
    /\ run.file.decodes
    /\ ~run.file.standardizes
    /\ run.calls = <<"from_file", "standardize">>

ScoreOf(f, e) ==
    CASE e = "analyze_clarity" -> f.clarity_score
      [] e = "analyze_confidence" -> f.confidence_score
      [] e = "analyze_energy_engagement" -> f.engagement_score

\* what extractor e computes on the frame's input when nothing raises in it
FaultFree(f, e) ==
    LET l == [f.librosa EXCEPT !.faults = {}]
    IN  CASE e = "analyze_clarity" -> analyze_clarity_body(f.y, f.sr, l)
          [] e = "analyze_confidence" ->
                analyze_confidence_body(f.y, f.sr, f.transcribed_text, l)
          [] e = "analyze_energy_engagement" ->
                analyze_energy_engagement_body(f.y, f.sr, l)

\* C3: once the extractors have been invoked, whatever the set of extractors
\* in which a computation raised: no exception has left run_full_analysis, all
\* three extractors were called, each failing one scored exactly 0.0, each
\* other one scored what it computes when nothing raises, and the mapping
\* returned has the six keys and carries these scores.
C3_ExtractorsFaultIsolated ==
    (Len(run.calls) >= 5) =>
        /\ run.pc \in {"Composing", "Done"}
        /\ run.exc = Unset
        /\ SubSeq(run.calls, 5, 7) =
              <<"analyze_clarity", "analyze_confidence", "analyze_energy_engagement">>
        /\ \A e \in Extractors :
              ScoreOf(run, e) = IF e \in run.librosa.faults THEN Zero
                                ELSE FaultFree(run, e)
        /\ run.pc = "Done" =>
              /\ DOMAIN run.ret = ReportKeys
              /\ run.ret["Clarity Score"] = run.clarity_score
              /\ run.ret["Confidence Score"] = run.confidence_score
              /\ run.ret["Energy & Engagement Score"] = run.engagement_score

C3_Witness ==
    /\ run.pc = "Done"
    /\ run.librosa # Unset
    /\ run.librosa.faults = {"analyze_confidence", "analyze_energy_engagement"}
    /\ run.ret["Clarity Score"] = Float(7, 1)
    /\ run.ret["Confidence Score"] = Zero
    /\ run.ret["Energy & Engagement Score"] = Zero

\* the request has analysed audio that loads, is not silent, and on which the
\* transcription raises
TranscriptionRaised(h) ==
    /\ h.read # Unset
    /\ ~LoadFails(h.read)
    /\ Len(h.read.samples) > 0
    /\ ~Quiet(h.read.samples)
    /\ IsRaise(h.read.whisper)

\* C4: a request whose transcription raised got no mapping from
\* run_full_analysis (the exception propagated to the handler) and is answered
\* with status 500 and an "Analysis failed unexpectedly" error; a request whose
\* file failed to load got the error mapping as a value, which is its answer
\* with status 500.
C4_TranscriptionRaisesLoadReturns ==
    \A r \in Requests :
        LET h == req[r]
        IN  /\ (h.pc \in {"Exists", "Remove", "Respond", "Responded"}
                    /\ TranscriptionRaised(h)) =>
                  /\ h.analysis_results = Unset
                  /\ h.exc = h.read.whisper
            /\ (h.pc = "Responded" /\ TranscriptionRaised(h)) =>
                  /\ h.response.status = 500
                  /\ DOMAIN h.response.body.json = {"error"}
                  /\ HasPrefix(h.response.body.json["error"].s,
                               "Analysis failed unexpectedly: ")
            /\ (h.pc = "Responded" /\ h.read # Unset /\ LoadFails(h.read)) =>
                  /\ h.exc = Unset
                  /\ DOMAIN h.analysis_results = {"error"}
                  /\ HasPrefix(h.analysis_results["error"].s,
                               "Could not load audio file: ")
                  /\ h.response = [status |-> 500, body |-> [json |-> h.analysis_results]]

C4_Witness ==
    \E r \in Requests :
        /\ req[r].pc = "Responded"
        /\ TranscriptionRaised(req[r])
        /\ req[r].read = req[r].form.upload
        /\ req[r].response.status = 500

BothNumeric(a, b) == IsFloat(a) /\ IsFloat(b)

\* C5: placeholder_professionalism_score returns the arithmetic mean of the
\* clarity and confidence scores when both are numeric, and the string
\* "Not Calculated" (never a number, never an exception) when either is
\* missing or not numeric.
C5_ProfessionalismMeanOrStatus ==
    (fn.op = "placeholder_professionalism_score") =>
        IF BothNumeric(fn.clarity, fn.confidence)
        THEN /\ IsFloat(fn.result)
             /\ FAdd(fn.result, fn.result) = FAdd(fn.clarity, fn.confidence)
        ELSE fn.result = Str("Not Calculated")

\* C6: for min_val < max_val and either setting of reverse, normalize_score
\* returns a number in [0, 10]; a value at or below min_val gives 0 (10 when
\* reversed) and a value at or above max_val gives 10 (0 when reversed); and of
\* two calls over the same range the one with the larger value has the larger
\* result (the smaller one when reversed), or an equal one.
C6_NormalizeBoundedSaturatingMonotonic ==
    (fn.op = "normalize_score" /\ FLt(fn.min_val, fn.max_val)) =>
        /\ InScale(fn.result)
        /\ FLe(fn.value, fn.min_val) => fn.result = IF fn.reverse THEN Ten ELSE Zero
        /\ FLe(fn.max_val, fn.value) => fn.result = IF fn.reverse THEN Zero ELSE Ten
        /\ (fn.prev # NoCall /\ FLe(fn.prev.value, fn.value)) =>
              IF fn.reverse THEN FLe(fn.result, fn.prev.result)
              ELSE FLe(fn.prev.result, fn.result)

C6_Witness ==
    /\ fn.op = "normalize_score"
    /\ fn.min_val = Float(50, 1)
    /\ fn.max_val = Float(250, 1)
    /\ fn.reverse
    /\ fn.prev # NoCall
    /\ fn.prev.value = Float(150, 1)
    /\ fn.prev.result = Float(5, 1)
    /\ fn.value = Float(300, 1)
    /\ fn.result = Zero

\* C7: in every mapping without an "error" key that run_full_analysis returns
\* (the silence result and the normal report, also when extractors fell back to
\* 0.0), the four scores are numbers in [0, 10] and Mood Analysis is
\* "Not Implemented".
C7_ReportScoresInScale ==
    (run.pc = "Done" /\ "error" \notin DOMAIN run.ret) =>
        /\ \A k \in ScoreKeys : InScale(run.ret[k])
        /\ run.ret["Mood Analysis"] = Str("Not Implemented")

C7_Witness ==
    /\ run.pc = "Done"
    /\ Len(run.calls) = 8
    /\ run.librosa.faults = {"analyze_energy_engagement"}
    /\ run.ret["Clarity Score"] = Float(7, 1)
    /\ run.ret["Confidence Score"] = Float(19, 2)
    /\ run.ret["Professionalism Score"] = Float(33, 4)
    /\ run.ret["Energy & Engagement Score"] = Zero

StageOrder ==
    <<"from_file", "standardize", "silence_check", "transcribe", "analyze_clarity",
      "analyze_confidence", "analyze_energy_engagement", "compose">>

\* the number of invocations made when the frame is at pc
CallsAt(pc) ==
    CASE pc \in {"Idle", "Loading"} -> {0}
      [] pc = "Standardizing" -> {1}
      [] pc = "SilenceCheck" -> {2}
      [] pc = "Transcribing" -> {3}
      [] pc = "Extracting" -> {4}
      [] pc = "Composing" -> {7}
      [] pc = "Raised" -> {3, 4}
      [] pc = "Done" -> {1, 2, 3, 8}

\* C8: the stages run in the order Loading, Standardizing, SilenceCheck,
\* Transcribing, Extracting, Composing, each at most once; the transcription is
\* invoked only after a successful load and a check that found the waveform
\* not silent; an extractor is invoked only after the transcription returned;
\* after a load failure or on a silent waveform neither is invoked.
C8_StagesInOrder ==
    /\ Len(run.calls) <= Len(StageOrder)
    /\ run.calls = SubSeq(StageOrder, 1, Len(run.calls))
    /\ Len(run.calls) \in CallsAt(run.pc)
    /\ Len(run.calls) >= 4 => (~LoadFails(run.file) /\ ~Quiet(run.y))
    /\ Len(run.calls) >= 5 => IsStr(run.transcribed_text)
    /\ (run.pc # "Idle" /\ LoadFails(run.file)) => Len(run.calls) <= 2
    /\ (Checked(run) /\ Quiet(run.y)) => Len(run.calls) = 3

C8_Witness ==
    /\ run.pc = "Done"
    /\ run.calls = StageOrder
    /\ ~Quiet(run.y)

\* the mapping, or the exception, that run_full_analysis gives on the
\* request's own upload
SameOutcomeAsAlone(h) ==
    LET f == run_full_analysis(h.form.upload)
    IN  /\ h.analysis_results = f.ret
        /\ h.exc = f.exc

\* C9: in every interleaving of two requests, the file a request is about to
\* analyse holds the bytes that request uploaded, the analysis reads these
\* bytes, and its outcome is the one it has when the request runs alone.
C9_RequestsIndependent ==
    \A r \in Requests :
        /\ req[r].pc = "Analyse" => files[req[r].temp_audio_path] = req[r].form.upload
        /\ req[r].read # Unset =>
              /\ req[r].read = req[r].form.upload
              /\ SameOutcomeAsAlone(req[r])

\* no other request has saved to the path of request r
Alone(r) ==
    \A o \in Requests \ {r} :
        ~req[o].saved \/ req[o].temp_audio_path # req[r].temp_audio_path

\* C10: every answered request that saved its upload has, before the answer,
\* looked for the temporary file and, when it was there, tried to remove it,
\* whether run_full_analysis returned a report, returned an error mapping or
\* raised; the answer and its status are those the analysis outcome alone
\* decides, also when the removal failed; and after a request that ran alone
\* and whose removal did not fail the file is gone.
C10_CleanupBeforeResponse ==
    \A r \in Requests :
        LET h == req[r]
        IN  (h.pc = "Responded" /\ h.saved) =>
                /\ h.cleanup \in {"absent", "removed", "failed"}
                /\ h.response.status =
                      IF h.exc # Unset \/ "error" \in DOMAIN h.analysis_results
                      THEN 500 ELSE 200
                /\ h.response.body.json =
                      IF h.exc # Unset
                      THEN ("error" :> Str("Analysis failed unexpectedly: " \o h.exc.msg))
                      ELSE h.analysis_results
                /\ Alone(r) => h.cleanup \in {"removed", "failed"}
                /\ (Alone(r) /\ h.cleanup = "removed") =>
                      files[h.temp_audio_path] = NoFile

C10_Witness ==
    \E r \in Requests :
        /\ req[r].pc = "Responded"
        /\ req[r].saved
        /\ req[r].exc # Unset
        /\ req[r].cleanup = "removed"
        /\ Alone(r)
        /\ files[req[r].temp_audio_path] = NoFile

====
